---------------------------- MODULE Spec2Model ----------------------------
(***************************************************************************)
(* A model of git-http-backend (main.go, git_rpc_client.go): the route     *)
(* table and ServeHTTP, the ref-advertisement and service-RPC handlers,    *)
(* the static-file sender with its cache policies, the pkt-line codec and  *)
(* the path joins.                                                         *)
(*                                                                         *)
(* Byte strings are sequences of one-character strings.  A path string is  *)
(* a record [rooted, segs]: rooted says whether it starts with "/", segs   *)
(* are the pieces between the slashes ("/a//b" is rooted <<"a","","b">>,   *)
(* "" is unrooted <<>>).                                                   *)
(***************************************************************************)
EXTENDS Integers, Sequences, FiniteSets, TLC

VARIABLES
    cfg,        \* GitSmartHTTPConfig: the flags the server was started with
    pc,         \* where the goroutine serving the current request stands
    req,        \* the request being served
    w,          \* its http.ResponseWriter
    routing,    \* what ServeHTTP's loop did: patterns evaluated, handlers invoked
    repoPath,   \* the repository path handed to the backend
    fullPath,   \* the file path sendFile opens
    file,       \* the file sendFile opened, as the operating system answered
    procs,      \* the backend commands built for this request, in order
    rpc,        \* the streamed RPC: request body, pipes' ends, what was copied
    pktIn,      \* the codec's input  (specification SpecPkt)
    pktOut,     \* the codec's output (specification SpecPkt)
    openFiles,  \* the files the server process holds open
    cwd,        \* the process's working directory (specification SpecClient)
    task,       \* the goroutines calling GitRPCClient (specification SpecClient)
    pipe        \* a streamed RPC and its backend, byte by byte (specification SpecPipe)

\* the variables of the specifications of GitRPCClient on its own
clientVars == <<cwd, task, pipe>>

vars == <<cfg, pc, req, w, routing, repoPath, fullPath, file, procs, rpc, pktIn, pktOut,
          openFiles, cwd, task, pipe>>

----------------------------------------------------------------------------
(* Bounds of the model *)

\* the longest client-chosen directory part of a URL path, in segments
MaxDepth == 2
\* the codec's short inputs are all strings over PktAlphabet up to this length
MaxLen == 3
\* the backend writes at most this many bytes on each of its outputs
MaxOut == 2
\* the largest capacity of a pipe between the handler and the backend, in bytes
PipeCap == 2
\* the longest request body of a streamed RPC, in bytes
MaxBody == 4
\* the number of files the process may hold open at a time
MaxOpen == 1

----------------------------------------------------------------------------
(* Constants of the program *)

uploadPack == "git-upload-pack"
receivePack == "git-receive-pack"
StatusOK == 200
StatusMovedPermanently == 301
StatusBadRequest == 400
StatusForbidden == 403
StatusNotFound == 404
StatusMethodNotAllowed == 405
\* strconv.FormatInt(.., 16), the four header bytes, and the width of "%04s"
HexBase == 16
PktHeaderLen == 4
PktWidth == 4
\* hdrCacheForever: now.Add(31536000 * time.Second)
OneYear == 31536000

\* the default of -repo-path: "/etc/git-http-backend"
ReposRootPath == [rooted |-> TRUE, segs |-> <<"etc", "git-http-backend">>]

----------------------------------------------------------------------------
(* Sequences *)

RECURSIVE SeqsUpTo(_, _)
SeqsUpTo(S, n) ==
    IF n = 0 THEN {<<>>}
    ELSE LET shorter == SeqsUpTo(S, n - 1)
         IN  shorter \cup {Append(s, x) : s \in {t \in shorter : Len(t) = n - 1}, x \in S}

IsPrefix(p, s) == Len(p) <= Len(s) /\ SubSeq(s, 1, Len(p)) = p

Last(s) == s[Len(s)]

\* the last n elements of s (all of s when it is shorter)
Tail_n(s, n) == IF Len(s) <= n THEN s ELSE SubSeq(s, Len(s) - n + 1, Len(s))

\* s without its last n elements
DropLast(s, n) == IF Len(s) <= n THEN <<>> ELSE SubSeq(s, 1, Len(s) - n)

----------------------------------------------------------------------------
(* path.Clean and path.Join on path strings *)

NoPath == [rooted |-> FALSE, segs |-> <<"<none>">>]
EmptyString == [rooted |-> FALSE, segs |-> <<>>]

\* path.Clean's walk over the segments: "" and "." are dropped, ".." removes
\* the segment before it; at the root of a rooted path ".." is dropped, at
\* the start of an unrooted one it is kept.
RECURSIVE CleanSegs(_, _, _)
CleanSegs(rooted, out, rest) ==
    IF rest = <<>> THEN out
    ELSE LET s == Head(rest)
         IN  IF s = "" \/ s = "." THEN CleanSegs(rooted, out, Tail(rest))
             ELSE IF s = ".."
                  THEN IF out # <<>> /\ Last(out) # ".."
                       THEN CleanSegs(rooted, DropLast(out, 1), Tail(rest))
                       ELSE IF rooted THEN CleanSegs(rooted, out, Tail(rest))
                            ELSE CleanSegs(rooted, Append(out, ".."), Tail(rest))
                  ELSE CleanSegs(rooted, Append(out, s), Tail(rest))

Clean(p) == [rooted |-> p.rooted, segs |-> CleanSegs(p.rooted, <<>>, p.segs)]

\* path.Join(a, b): empty elements are ignored, the rest are joined with "/"
\* and the result is cleaned.
Join(a, b) ==
    IF a = EmptyString /\ b = EmptyString THEN EmptyString
    ELSE IF a = EmptyString THEN Clean(b)
    ELSE IF b = EmptyString THEN Clean(a)
    ELSE Clean([rooted |-> a.rooted,
                segs |-> a.segs \o (IF b.rooted THEN <<"">> ELSE <<>>) \o b.segs])

\* p is root or a descendant of it
Within(root, p) == p.rooted = root.rooted /\ IsPrefix(root.segs, p.segs)

\* net/http's cleanPath, which ServeMux applies to r.URL.Path: "" becomes
\* "/", a leading "/" is added, the path is cleaned, and a trailing slash
\* that path.Clean removed is put back
cleanPath(p) ==
    IF p = EmptyString THEN [rooted |-> TRUE, segs |-> <<"">>]
    ELSE LET np == Clean([rooted |-> TRUE, segs |-> p.segs])
         IN  IF np.segs = <<>> THEN [rooted |-> TRUE, segs |-> <<"">>]
             ELSE IF Last(p.segs) = "" THEN [np EXCEPT !.segs = Append(@, "")]
             ELSE np

----------------------------------------------------------------------------
(* The route table: NewGitSmartHTTP *)

\* The segments the model draws for the character classes of the patterns:
\* [0-9a-f]{2}, [0-9a-f]{38}, pack-[0-9a-f]{40}\.pack, pack-[0-9a-f]{40}\.idx
Hex2 == {"ab"}
Hex38 == {"0123456789abcdef0123456789abcdef012345"}
PackNames == {"pack-0123456789abcdef0123456789abcdef01234567.pack"}
IdxNames == {"pack-0123456789abcdef0123456789abcdef01234567.idx"}

\* A pattern "(?P<repoPath>.*)/t1/.../tn$" is the sequence of the sets its
\* last n segments are taken from.
Services == <<
    [Method |-> "GET",  Pattern |-> <<{"HEAD"}>>,                                   Handler |-> "handleTextFile"],
    [Method |-> "GET",  Pattern |-> <<{"info"}, {"packs"}>>,                        Handler |-> "handleInfoPacks"],
    [Method |-> "GET",  Pattern |-> <<{"info"}, {"refs"}>>,                         Handler |-> "handleInfoRefs"],
    [Method |-> "GET",  Pattern |-> <<{"objects"}, {"info"}, {"alternates"}>>,      Handler |-> "handleTextFile"],
    [Method |-> "GET",  Pattern |-> <<{"objects"}, {"info"}, {"http-alternates"}>>, Handler |-> "handleTextFile"],
    [Method |-> "GET",  Pattern |-> <<{"objects"}, Hex2, Hex38>>,                   Handler |-> "handleLooseObject"],
    [Method |-> "GET",  Pattern |-> <<{"objects"}, {"pack"}, PackNames>>,           Handler |-> "handlePackFile"],
    [Method |-> "GET",  Pattern |-> <<{"objects"}, {"pack"}, IdxNames>>,            Handler |-> "handleIdxFile"],
    [Method |-> "POST", Pattern |-> <<{uploadPack}>>,                               Handler |-> "handleServiceRPC"],
    [Method |-> "POST", Pattern |-> <<{receivePack}>>,                              Handler |-> "handleServiceRPC"] >>

\* regexp.MatchString on an end-anchored pattern: the path ends with "/t1/.../tn"
MatchString(pattern, path) ==
    LET n == Len(pattern)
        m == Len(path.segs)
    IN  /\ m >= n
        /\ path.rooted \/ m > n
        /\ \A i \in 1..n : path.segs[m - n + i] \in pattern[i]

\* Service.ParseURLNamedParams: the named captures of the leftmost match.
\* repoPath is everything before the matched tail, serviceType the last segment.
ParseURLNamedParams(s, path) ==
    LET rest == DropLast(path.segs, Len(s.Pattern))
    IN  [repoPath    |-> IF rest = <<>> THEN EmptyString
                         ELSE [rooted |-> path.rooted, segs |-> rest],
         serviceType |-> Last(path.segs)]

----------------------------------------------------------------------------
(* http.ResponseWriter *)

\* A Content-Type value: the media type and its parameters.
CT(media, params) == [media |-> media, params |-> params]

\* time.Time.Format(time.RFC850)
FormatRFC850(t) == [layout |-> "RFC850", unix |-> t]

NewResponse == [hdr |-> <<>>, wroteHeader |-> FALSE, status |-> 0, sent |-> <<>>, body |-> <<>>]

\* w.Header().Set(k, v): the header map holds a list of values for each key
HSet(rw, k, v) == [rw EXCEPT !.hdr = (k :> <<v>>) @@ rw.hdr]

\* w.Header().Add(k, v)
HAdd(rw, k, v) ==
    IF k \in DOMAIN rw.hdr THEN [rw EXCEPT !.hdr[k] = Append(@, v)] ELSE HSet(rw, k, v)

\* w.Header().Del(k)
HDel(rw, k) == [rw EXCEPT !.hdr = [h \in (DOMAIN rw.hdr) \ {k} |-> rw.hdr[h]]]

\* w.WriteHeader(code): the first call commits the status and the headers as
\* they are now; later calls, and later changes to the header map, do not
\* reach the client.
WriteHeader(rw, code) ==
    IF rw.wroteHeader THEN rw
    ELSE [rw EXCEPT !.wroteHeader = TRUE, !.status = code, !.sent = rw.hdr]

\* w.Write(bytes): commits 200 first if nothing was committed. src tells
\* where the bytes came from.
Write(rw, src, bytes) ==
    LET c == WriteHeader(rw, StatusOK)
    IN  [c EXCEPT !.body = Append(@, [src |-> src, bytes |-> bytes])]

\* the first value of header k as the client received it, NoHeader if absent
NoHeader == "<absent>"
Sent(rw, k) == IF k \in DOMAIN rw.sent THEN rw.sent[k][1] ELSE NoHeader

\* the client received header k with the value v
SentIs(rw, k, v) == k \in DOMAIN rw.sent /\ rw.sent[k][1] = v

\* the client received a Content-Type of the given media type
SentMedia(rw, media) ==
    "Content-Type" \in DOMAIN rw.sent /\ rw.sent["Content-Type"][1].media = media

RECURSIVE Flatten(_)
Flatten(chunks) == IF chunks = <<>> THEN <<>> ELSE Head(chunks).bytes \o Flatten(Tail(chunks))

\* the response body the client received
Body(rw) == Flatten(rw.body)

----------------------------------------------------------------------------
(* Headers, access, the pkt-line codec *)

hdrNoCache ==
    [h \in {"Expires", "Pragma", "Cache-Control"} |->
        CASE h = "Expires"       -> "Fri, 01 Jan 1980 00:00:00 GMT"
          [] h = "Pragma"        -> "no-cache"
          [] h = "Cache-Control" -> "no-cache, max-age=0, must-revalidate"]

\* the cache-forever set with an Expires of now
hdrCacheForever_ExpiresNow(now) ==
    [h \in {"Date", "Expires", "Cache-Control"} |->
        CASE h = "Date"          -> FormatRFC850(now)
          [] h = "Expires"       -> FormatRFC850(now)
          [] h = "Cache-Control" -> "public, max-age=31536000"]

hdrCacheForever(now) ==
    [h \in {"Date", "Expires", "Cache-Control"} |->
        CASE h = "Date"          -> FormatRFC850(now)
          [] h = "Expires"       -> FormatRFC850(now + OneYear)
          [] h = "Cache-Control" -> "public, max-age=31536000"]

\* setHeaders: Set every key of hdr (the keys are distinct, so the map's
\* iteration order does not show)
RECURSIVE SetAll(_, _, _)
SetAll(rw, hdr, keys) ==
    IF keys = {} THEN rw
    ELSE LET k == CHOOSE x \in keys : TRUE
         IN  SetAll(HSet(rw, k, hdr[k]), hdr, keys \ {k})

setHeaders(rw, hdr) == SetAll(rw, hdr, DOMAIN hdr)

\* access decided by the verb's name alone
serviceAccess_IgnoreConfig(c, service) == service \in {uploadPack, receivePack}

serviceAccess(c, service) ==
    IF service = uploadPack THEN c.UploadPack
    ELSE IF service = receivePack THEN c.ReceivePack
    ELSE FALSE

\* methodNotAllowed without its look at the protocol
methodNotAllowed_Always405(rw, r) ==
    WriteHeader(HSet(rw, "Content-Type", CT("text/plain", "")), StatusMethodNotAllowed)

methodNotAllowed(rw, r) ==
    LET h == HSet(rw, "Content-Type", CT("text/plain", ""))
    IN  IF r.Proto = "HTTP/1.1" THEN WriteHeader(h, StatusMethodNotAllowed)
        ELSE WriteHeader(h, StatusBadRequest)

HexDigits == <<"0", "1", "2", "3", "4", "5", "6", "7", "8", "9", "a", "b", "c", "d", "e", "f">>

\* strconv.FormatInt(n, 16) for n >= 0: the digits of n, most significant
\* first, no padding
RECURSIVE FormatInt(_, _)
FormatInt(n, base) ==
    IF n < base THEN <<HexDigits[n + 1]>>
    ELSE Append(FormatInt(n \div base, base), HexDigits[(n % base) + 1])

\* fmt.Sprintf("%04s", s): zeros on the left up to the width, never a cut
RECURSIVE PadLeft(_, _, _)
PadLeft(s, width, pad) == IF Len(s) >= width THEN s ELSE PadLeft(<<pad>> \o s, width, pad)

\* the prefix counting the payload alone
pktWrite_PayloadLength(s) == PadLeft(FormatInt(Len(s), HexBase), PktWidth, "0") \o s

pktWrite(s) == PadLeft(FormatInt(Len(s) + PktHeaderLen, HexBase), PktWidth, "0") \o s

pktFlush == <<"0", "0", "0", "0">>

\* fmt.Sprintf("# service=%s\n", serviceType), for the services the model draws
ServiceLine(serviceType) ==
    <<"#", " ", "s", "e", "r", "v", "i", "c", "e", "=", "g", "i", "t", "-">>
    \o (CASE serviceType = uploadPack  -> <<"u", "p", "l", "o", "a", "d">>
          [] serviceType = receivePack -> <<"r", "e", "c", "e", "i", "v", "e">>
          [] serviceType = "git-foo"   -> <<"f", "o", "o">>)
    \o (IF serviceType \in {uploadPack, receivePack} THEN <<"-", "p", "a", "c", "k">> ELSE <<>>)
    \o <<"\n">>

----------------------------------------------------------------------------
(* The backend command: GitRPCClient *)

\* NewGitRPCClient's translation table; a key it does not hold reads as ""
RPCConfig(k) == IF k = "advertise_refs" THEN "--advertise-refs" ELSE ""

RECURSIVE Translate(_)
Translate(keys) == IF keys = <<>> THEN <<>> ELSE <<RPCConfig(Head(keys))>> \o Translate(Tail(keys))

\* UploadPack / ReceivePack: verb, one argument per key of cfg in the order
\* the map's iteration gave them, "--stateless-rpc", the repository path
Command(verb, path, keys) == <<verb>> \o Translate(keys) \o <<"--stateless-rpc", path>>

UploadPack(path, keys) == Command("upload-pack", path, keys)

ReceivePack(path, keys) == Command("receive-pack", path, keys)

----------------------------------------------------------------------------
(* sendFile *)

NoFile == [opened |-> FALSE, statOK |-> FALSE, contents |-> <<>>, mtime |-> 0]

\* "404 page not found\n" and "Cannot fetch file <err>", shortened
NotFoundText == <<"4", "0", "4">>
StatErrorText == <<"C", "a", "n", "n", "o", "t">>

\* http.NotFound(w, r): http.Error with "404 page not found"
NotFound(rw) ==
    LET h1 == HDel(rw, "Content-Length")
        h2 == HSet(h1, "Content-Type", CT("text/plain", "charset=utf-8"))
        h3 == HSet(h2, "X-Content-Type-Options", "nosniff")
    IN  Write(WriteHeader(h3, StatusNotFound), "notfound", NotFoundText)

\* io.Copy(w, f) that got n bytes through: no Write call at all for n = 0
Copy(rw, src, bytes, n) == IF n = 0 THEN rw ELSE Write(rw, src, SubSeq(bytes, 1, n))

\* sendFile setting the class's headers before it opens the file
sendFile_HeadersFirst(rw, f, contentType, hdr, n) ==
    IF ~f.opened
    THEN NotFound(HSet(setHeaders(rw, hdr), "Content-Type", CT("text/plain", "")))
    ELSE IF ~f.statOK
    THEN Write(rw, "staterror", StatErrorText)
    ELSE LET h1 == setHeaders(rw, hdr)
             h2 == HSet(h1, "Content-Type", contentType)
             h3 == HSet(h2, "Content-Length", FormatInt(Len(f.contents), 10))
             h4 == HSet(h3, "Last-Modified", FormatRFC850(f.mtime))
         IN  Copy(h4, "file", f.contents, n)

\* sendFile(w, r, contentType, hdr) on the file f the operating system
\* answered for Join(root, r.URL.Path), with n bytes copied before io.Copy
\* returned.
sendFile(rw, f, contentType, hdr, n) ==
    IF ~f.opened
    THEN NotFound(HSet(rw, "Content-Type", CT("text/plain", "")))
    ELSE IF ~f.statOK
    THEN Write(rw, "staterror", StatErrorText)
    ELSE LET h1 == setHeaders(rw, hdr)
             h2 == HSet(h1, "Content-Type", contentType)
             h3 == HSet(h2, "Content-Length", FormatInt(Len(f.contents), 10))
             h4 == HSet(h3, "Last-Modified", FormatRFC850(f.mtime))
         IN  Copy(h4, "file", f.contents, n)

----------------------------------------------------------------------------
(* What the model draws: requests, files, backend output *)

\* CONNECT is the one method whose path net/http's ServeMux does not clean
Methods == {"GET", "POST", "CONNECT"}
Protos == {"HTTP/1.1", "HTTP/1.0", "HTTP/2.0"}
\* the "service" query parameter; "" when it is absent
ServiceParams == {uploadPack, receivePack, "git-foo", ""}

\* the directory part of the URL path, as the client chose it
DirSegs == {"repo", "..", ""}
Dirs == SeqsUpTo(DirSegs, MaxDepth)

\* the end of the URL path: one for every route, and some for none
Tails == {
    <<"HEAD">>,
    <<"info", "packs">>,
    <<"info", "refs">>,
    <<"objects", "info", "alternates">>,
    <<"objects", "info", "http-alternates">>,
    <<"objects", "ab", "0123456789abcdef0123456789abcdef012345">>,
    <<"objects", "pack", "pack-0123456789abcdef0123456789abcdef01234567.pack">>,
    <<"objects", "pack", "pack-0123456789abcdef0123456789abcdef01234567.idx">>,
    <<"git-upload-pack">>,
    <<"git-receive-pack">>,
    <<"objects", "zz", "0123456789abcdef0123456789abcdef012345">>,
    <<"index.html">> }

Paths == {[rooted |-> TRUE, segs |-> d \o t] : d \in Dirs, t \in Tails}

Requests == [Method : Methods, Path : Paths, Proto : Protos, Service : ServiceParams]

NoRequest == [Method |-> "", Path |-> NoPath, Proto |-> "", Service |-> ""]

Bytes == {"x"}
\* a file's contents, and what the backend writes on one of its outputs
Contents == SeqsUpTo(Bytes, MaxOut)
Clock == {0, 86400}

Files == {NoFile}
         \cup {[opened |-> TRUE, statOK |-> FALSE, contents |-> <<>>, mtime |-> 0]}
         \cup {[opened |-> TRUE, statOK |-> TRUE, contents |-> c, mtime |-> 0] : c \in Contents}

NoRouting == [evaluated |-> <<>>, invoked |-> <<>>, notAllowed |-> 0]
NoRPC == [encoding |-> "", gzip |-> "none", reqBody |-> <<>>,
          StdinWriter |-> "nil", StdoutReader |-> "nil", StderrReader |-> "nil",
          stdin |-> <<>>, stdinDone |-> FALSE, stdoutDone |-> FALSE, stderrDone |-> FALSE,
          waited |-> FALSE, exit |-> "none"]

\* the request's Content-Encoding header
Encodings == {"", "gzip"}
\* what the request body is as a gzip stream: a stream that decodes to its
\* end, one whose header gzip.NewReader rejects (an empty body is one), one
\* that breaks after its header
GzipOutcomes == {"ok", "bad-header", "broken-stream"}
\* how gs.Start() ends: nil, or the error of the pipe or the spawn that failed
StartOutcomes == {"ok", "StdinPipe", "StdoutPipe", "StderrPipe", "cmd.Start"}

\* the directory the server was started in
StartDir == "/srv"
\* the goroutines that call the client at the same time
Tasks == {1, 2}
\* a goroutine that has not called the client yet
IdleTask == [pc |-> "idle", verb |-> "", repoPath |-> "", keys |-> <<>>, args |-> <<>>,
             before |-> "", pwd |-> "", failed |-> {}, spawnCwd |-> ""]
\* no streamed RPC under way
NoPipe == [hpc |-> "none", bpc |-> "none", kind |-> "none", cap |-> 0,
           total |-> 0, body |-> 0, inBuf |-> 0, inClosed |-> FALSE, consumed |-> 0,
           owed |-> 0, outTotal |-> 0, outLeft |-> 0, outBuf |-> 0, copied |-> 0]

----------------------------------------------------------------------------
(* The server *)

Init ==
    /\ cfg \in [UploadPack : BOOLEAN, ReceivePack : BOOLEAN]
    /\ pc = "idle"
    /\ req = NoRequest
    /\ w = NewResponse
    /\ routing = NoRouting
    /\ repoPath = NoPath
    /\ fullPath = NoPath
    /\ file = NoFile
    /\ procs = <<>>
    /\ rpc = NoRPC
    /\ pktIn = <<>>
    /\ pktOut = <<>>
    /\ openFiles = 0
    /\ cwd = StartDir
    /\ task = [t \in Tasks |-> IdleTask]
    /\ pipe = NoPipe

\* net/http reads a request and hands it, with a fresh ResponseWriter, to
\* the ServeMux main() listens with
Accept ==
    /\ pc = "idle"
    /\ \E r \in Requests : req' = r
    /\ pc' = "ServeMux"
    /\ UNCHANGED <<cfg, w, routing, repoPath, fullPath, file, procs, rpc, pktIn, pktOut, openFiles, clientVars>>

\* http.Redirect(w, r, url, 301), as far as the status and the Location go
Redirect(rw, url) == WriteHeader(HSet(rw, "Location", url), StatusMovedPermanently)

\* a mux that hands every request to gsh as it came
ServeMux_NoClean ==
    /\ pc = "ServeMux"
    /\ pc' = "ServeHTTP"
    /\ UNCHANGED <<cfg, req, w, routing, repoPath, fullPath, file, procs, rpc, pktIn, pktOut, openFiles, clientVars>>

\* mux.Handle("/", gsh): every path belongs to gsh, but a request other than
\* CONNECT whose path is not what cleanPath makes of it is answered by the
\* mux itself, with a redirect to the cleaned path
ServeMux ==
    /\ pc = "ServeMux"
    /\ IF req.Method # "CONNECT" /\ cleanPath(req.Path) # req.Path
       THEN w' = Redirect(w, cleanPath(req.Path)) /\ pc' = "return"
       ELSE w' = w /\ pc' = "ServeHTTP"
    /\ UNCHANGED <<cfg, req, routing, repoPath, fullPath, file, procs, rpc, pktIn, pktOut, openFiles, clientVars>>

\* the loop without its break
RECURSIVE RouteLoop_NoBreak(_, _, _)
RouteLoop_NoBreak(i, r, acc) ==
    IF i > Len(Services) THEN acc
    ELSE LET seen == [acc EXCEPT !.evaluated = Append(@, i)]
         IN  IF MatchString(Services[i].Pattern, r.Path)
             THEN IF r.Method = Services[i].Method
                  THEN RouteLoop_NoBreak(i + 1, r, [seen EXCEPT !.invoked = Append(@, i)])
                  ELSE RouteLoop_NoBreak(i + 1, r, [seen EXCEPT !.notAllowed = @ + 1])
             ELSE RouteLoop_NoBreak(i + 1, r, seen)

\* ServeHTTP's loop from route i on: each pattern is evaluated in table
\* order; the first that matches decides between its handler and
\* methodNotAllowed, and the loop breaks.
RECURSIVE RouteLoop(_, _, _)
RouteLoop(i, r, acc) ==
    IF i > Len(Services) THEN acc
    ELSE LET seen == [acc EXCEPT !.evaluated = Append(@, i)]
         IN  IF MatchString(Services[i].Pattern, r.Path)
             THEN IF r.Method = Services[i].Method
                  THEN [seen EXCEPT !.invoked = Append(@, i)]
                  ELSE [seen EXCEPT !.notAllowed = @ + 1]
             ELSE RouteLoop(i + 1, r, seen)

\* the Service value the handler was called with
Route == Services[Last(routing.invoked)]

ServeHTTP ==
    /\ pc = "ServeHTTP"
    /\ LET done == RouteLoop(1, req, NoRouting)
       IN  /\ routing' = done
           /\ IF done.invoked # <<>>
              THEN pc' = Services[Last(done.invoked)].Handler /\ w' = w
              ELSE /\ pc' = "return"
                   /\ w' = IF done.notAllowed > 0 THEN methodNotAllowed(w, req) ELSE w
    /\ UNCHANGED <<cfg, req, repoPath, fullPath, file, procs, rpc, pktIn, pktOut, openFiles, clientVars>>

\* the files os.Open can answer with: none once the process is at its
\* limit of open files
Openable == IF openFiles < MaxOpen THEN Files ELSE {NoFile}

\* gsh.sendFile as a step of the request's goroutine, from response rw: the
\* operating system answers the open and the stat, io.Copy gets n bytes
\* through.  No path of sendFile closes the file it opened.
SendFileStep(rw, contentType, hdr) ==
    \E f \in Openable : \E n \in 0..Len(f.contents) :
        /\ fullPath' = Join(ReposRootPath, req.Path)
        /\ file' = f
        /\ openFiles' = IF f.opened THEN openFiles + 1 ELSE openFiles
        /\ w' = sendFile(rw, f, contentType, hdr, n)
        /\ pc' = "return"

handleTextFile ==
    /\ pc = "handleTextFile"
    /\ SendFileStep(w, CT("text/plain", ""), hdrNoCache)
    /\ UNCHANGED <<cfg, req, routing, repoPath, procs, rpc, pktIn, pktOut, clientVars>>

handleInfoPacks ==
    /\ pc = "handleInfoPacks"
    /\ SendFileStep(w, CT("text/plain", "charset=utf-8"), hdrNoCache)
    /\ UNCHANGED <<cfg, req, routing, repoPath, procs, rpc, pktIn, pktOut, clientVars>>

handleLooseObject ==
    /\ pc = "handleLooseObject"
    /\ \E now \in Clock : SendFileStep(w, CT("application/x-git-loose-object", ""), hdrCacheForever(now))
    /\ UNCHANGED <<cfg, req, routing, repoPath, procs, rpc, pktIn, pktOut, clientVars>>

handlePackFile ==
    /\ pc = "handlePackFile"
    /\ \E now \in Clock : SendFileStep(w, CT("application/x-git-packed-objects", ""), hdrCacheForever(now))
    /\ UNCHANGED <<cfg, req, routing, repoPath, procs, rpc, pktIn, pktOut, clientVars>>

handleIdxFile ==
    /\ pc = "handleIdxFile"
    /\ \E now \in Clock : SendFileStep(w, CT("application/x-git-packed-objects-toc", ""), hdrCacheForever(now))
    /\ UNCHANGED <<cfg, req, routing, repoPath, procs, rpc, pktIn, pktOut, clientVars>>

\* the advertisement with the flush marker written first
Advertise_FlushFirst(rw, serviceType, refs) ==
    Write(Write(Write(rw, "flush", pktFlush),
                "announce", pktWrite(ServiceLine(serviceType))),
          "backend", refs)

\* the body of the smart advertisement: the announcement line, the flush
\* marker, what the backend printed
Advertise(rw, serviceType, refs) ==
    Write(Write(Write(rw, "announce", pktWrite(ServiceLine(serviceType))),
                "flush", pktFlush),
          "backend", refs)

\* how a buffered backend run (cmd.Output) ends
OutputOutcomes == {"ok", "exit-nonzero", "spawn-failed"}

\* gs.Output(): the backend's standard output, captured; nothing when the
\* process could not be spawned
Captured(outcome) == IF outcome = "spawn-failed" THEN {<<>>} ELSE Contents

handleInfoRefs ==
    /\ pc = "handleInfoRefs"
    /\ LET serviceType == req.Service
           namedURLParams == ParseURLNamedParams(Route, req.Path)
           rp == Join(ReposRootPath, namedURLParams.repoPath)
       IN  /\ repoPath' = rp
           /\ IF serviceAccess(cfg, serviceType)
              THEN LET h1 == HAdd(w, "Content-Type",
                                  CT("application/x-" \o serviceType \o "-advertisement", ""))
                       h2 == WriteHeader(setHeaders(h1, hdrNoCache), StatusOK)
                       args == IF serviceType = uploadPack
                               THEN UploadPack(rp, <<"advertise_refs">>)
                               ELSE ReceivePack(rp, <<"advertise_refs">>)
                   IN  \E outcome \in OutputOutcomes : \E refs \in Captured(outcome) :
                         /\ procs' = Append(procs, [args |-> args, run |-> "Output", outcome |-> outcome])
                         /\ w' = Advertise(h2, serviceType, refs)
                         /\ pc' = "return"
                         /\ UNCHANGED <<fullPath, file, openFiles>>
              ELSE \E outcome \in OutputOutcomes :
                         /\ procs' = Append(procs, [args |-> UploadPack(rp, <<>>), run |-> "Output",
                                                    outcome |-> outcome])
                         /\ SendFileStep(w, CT("text/plain", "charset=utf-8"), hdrNoCache)
    /\ UNCHANGED <<cfg, req, routing, rpc, pktIn, pktOut, clientVars>>

\* handleServiceRPC up to the access check
handleServiceRPC ==
    /\ pc = "handleServiceRPC"
    /\ LET namedURLParams == ParseURLNamedParams(Route, req.Path)
       IN  /\ repoPath' = Join(ReposRootPath, namedURLParams.repoPath)
           /\ IF ~serviceAccess(cfg, namedURLParams.serviceType)
              THEN /\ w' = HSet(WriteHeader(w, StatusForbidden), "Content-Type", CT("text/plain", ""))
                   /\ pc' = "return"
              ELSE /\ w' = w
                   /\ pc' = "rpcReadBody"
    /\ UNCHANGED <<cfg, req, routing, fullPath, file, procs, rpc, pktIn, pktOut, openFiles, clientVars>>

\* how the body's decoding goes: nothing to decode without the gzip header
Decoded(enc, z) == IF enc = "gzip" THEN z ELSE "none"

\* the switch on Content-Encoding: the body is read into memory, through a
\* gzip reader when the header says so.  gzip.NewReader fails on a bad gzip
\* header, the error is logged and reader is nil: ioutil.ReadAll(reader)
\* dereferences it and panics.  A stream that breaks later gives the bytes
\* decoded so far, and ReadAll's error is dropped.
rpcReadBody ==
    /\ pc = "rpcReadBody"
    /\ \E enc \in Encodings : \E z \in GzipOutcomes : \E body \in Contents :
         LET how == Decoded(enc, z)
         IN  IF how = "bad-header"
             THEN pc' = "panic" /\ rpc' = [rpc EXCEPT !.encoding = enc, !.gzip = how]
             ELSE pc' = "rpcCommand"
                  /\ rpc' = [rpc EXCEPT !.encoding = enc, !.gzip = how, !.reqBody = body]
    /\ UNCHANGED <<cfg, req, w, routing, repoPath, fullPath, file, procs, pktIn, pktOut, openFiles, clientVars>>

\* NewGitRPCClient, UploadPack or ReceivePack, and the result Content-Type
rpcCommand ==
    /\ pc = "rpcCommand"
    /\ LET serviceType == ParseURLNamedParams(Route, req.Path).serviceType
           args == IF serviceType = uploadPack THEN UploadPack(repoPath, <<>>)
                   ELSE ReceivePack(repoPath, <<>>)
       IN  /\ procs' = Append(procs, [args |-> args, run |-> "built", outcome |-> "none"])
           /\ w' = HSet(w, "Content-Type", CT("application/x-" \o serviceType \o "-result", ""))
    /\ pc' = "rpcStart"
    /\ UNCHANGED <<cfg, req, routing, repoPath, fullPath, file, rpc, pktIn, pktOut, openFiles, clientVars>>

\* a handler that answers 500 and returns when Start fails
rpcStart_FailFast ==
    /\ pc = "rpcStart"
    /\ \E o \in StartOutcomes :
         /\ rpc' = [rpc EXCEPT
                !.StdinWriter  = IF o = "ok" THEN "open" ELSE "nil",
                !.StdoutReader = IF o = "ok" THEN "open" ELSE "nil",
                !.StderrReader = IF o = "ok" THEN "open" ELSE "nil"]
         /\ procs' = [procs EXCEPT ![Len(procs)].run = IF o = "ok" THEN "Start" ELSE "built",
                                   ![Len(procs)].outcome = o]
         /\ w' = IF o = "ok" THEN w ELSE WriteHeader(w, 500)
         /\ pc' = IF o = "ok" THEN "rpcWrite" ELSE "return"
    /\ UNCHANGED <<cfg, req, routing, repoPath, fullPath, file, pktIn, pktOut, openFiles, clientVars>>

\* gs.Start(): ioPrepare opens the three pipes in order and stops at the first
\* that fails; then cmd.Start spawns, and closes the pipes if it cannot.  The
\* error is logged and the handler goes on.
rpcStart ==
    /\ pc = "rpcStart"
    /\ \E o \in StartOutcomes :
         /\ rpc' = [rpc EXCEPT
                !.StdinWriter  = CASE o = "StdinPipe" -> "nil"
                                   [] o = "cmd.Start" -> "closed"
                                   [] OTHER -> "open",
                !.StdoutReader = CASE o \in {"StdinPipe", "StdoutPipe"} -> "nil"
                                   [] o = "cmd.Start" -> "closed"
                                   [] OTHER -> "open",
                !.StderrReader = CASE o \in {"StdinPipe", "StdoutPipe", "StderrPipe"} -> "nil"
                                   [] o = "cmd.Start" -> "closed"
                                   [] OTHER -> "open"]
         /\ procs' = [procs EXCEPT ![Len(procs)].run = IF o = "ok" THEN "Start" ELSE "built",
                                   ![Len(procs)].outcome = o]
    /\ pc' = "rpcWrite"
    /\ UNCHANGED <<cfg, req, w, routing, repoPath, fullPath, file, pktIn, pktOut, openFiles, clientVars>>

\* the handler going on to the copies without writing the request body
rpcWrite_Skipped ==
    /\ pc = "rpcWrite"
    /\ pc' = "rpcCopyStdout"
    /\ UNCHANGED <<cfg, req, w, routing, repoPath, fullPath, file, procs, rpc, pktIn, pktOut, openFiles, clientVars>>

\* what gs.StdinWriter.Write(body) gets to the backend: all of it, or the
\* part written before the backend closed its input or exited; nothing
\* through a closed pipe
Delivered(writer, body) ==
    IF writer = "open" THEN {SubSeq(body, 1, n) : n \in 0..Len(body)} ELSE {<<>>}

\* gs.StdinWriter.Write(reqBody): a nil writer panics; the call returns when
\* the whole body is written or the write fails
rpcWrite ==
    /\ pc = "rpcWrite"
    /\ IF rpc.StdinWriter = "nil" THEN pc' = "panic" /\ rpc' = rpc
       ELSE \E got \in Delivered(rpc.StdinWriter, rpc.reqBody) :
              /\ pc' = "rpcCopyStdout"
              /\ rpc' = [rpc EXCEPT !.stdin = got, !.stdinDone = TRUE]
    /\ UNCHANGED <<cfg, req, w, routing, repoPath, fullPath, file, procs, pktIn, pktOut, openFiles, clientVars>>

\* what io.Copy(w, reader) gets from one of the pipes: the backend's output
\* when the process runs, nothing from a closed pipe
Piped(reader) == IF reader = "open" THEN Contents ELSE {<<>>}

\* io.Copy(w, gs.StdoutReader), to end-of-stream
rpcCopyStdout ==
    /\ pc = "rpcCopyStdout"
    /\ IF rpc.StdoutReader = "nil" THEN pc' = "panic" /\ rpc' = rpc /\ w' = w
       ELSE \E out \in Piped(rpc.StdoutReader) :
              /\ w' = Copy(w, "stdout", out, Len(out))
              /\ rpc' = [rpc EXCEPT !.stdoutDone = TRUE]
              /\ pc' = "rpcCopyStderr"
    /\ UNCHANGED <<cfg, req, routing, repoPath, fullPath, file, procs, pktIn, pktOut, openFiles, clientVars>>

\* io.Copy(w, gs.StderrReader), to end-of-stream
rpcCopyStderr ==
    /\ pc = "rpcCopyStderr"
    /\ IF rpc.StderrReader = "nil" THEN pc' = "panic" /\ rpc' = rpc /\ w' = w
       ELSE \E err \in Piped(rpc.StderrReader) :
              /\ w' = Copy(w, "stderr", err, Len(err))
              /\ rpc' = [rpc EXCEPT !.stderrDone = TRUE]
              /\ pc' = "rpcWait"
    /\ UNCHANGED <<cfg, req, routing, repoPath, fullPath, file, procs, pktIn, pktOut, openFiles, clientVars>>

\* how cmd.Wait ends for a command that Start did or did not spawn
WaitOutcomes(run) == IF run = "Start" THEN {"exit-0", "exit-nonzero"} ELSE {"not-started"}

\* gs.Wait(): its error is logged
rpcWait ==
    /\ pc = "rpcWait"
    /\ \E e \in WaitOutcomes(Last(procs).run) : rpc' = [rpc EXCEPT !.waited = TRUE, !.exit = e]
    /\ pc' = "return"
    /\ UNCHANGED <<cfg, req, w, routing, repoPath, fullPath, file, procs, pktIn, pktOut, openFiles, clientVars>>

\* ServeHTTP returns: net/http commits 200 and the headers if the handler
\* committed nothing
Return ==
    /\ pc = "return"
    /\ w' = WriteHeader(w, StatusOK)
    /\ pc' = "done"
    /\ UNCHANGED <<cfg, req, routing, repoPath, fullPath, file, procs, rpc, pktIn, pktOut, openFiles, clientVars>>

\* the connection moves on to its next request (after a panic net/http
\* recovers, logs and closes the connection; the next one is a new connection)
NextRequest ==
    /\ pc \in {"done", "panic"}
    /\ pc' = "idle"
    /\ req' = NoRequest
    /\ w' = NewResponse
    /\ routing' = NoRouting
    /\ repoPath' = NoPath
    /\ fullPath' = NoPath
    /\ file' = NoFile
    /\ procs' = <<>>
    /\ rpc' = NoRPC
    /\ UNCHANGED <<cfg, pktIn, pktOut, openFiles, clientVars>>

\* the runtime's finalizer closes a file no goroutine refers to any more,
\* at a garbage collection, whenever that comes
Finalizer ==
    /\ openFiles > 0
    /\ openFiles' = openFiles - 1
    /\ UNCHANGED <<cfg, pc, req, w, routing, repoPath, fullPath, file, procs, rpc,
                   pktIn, pktOut, clientVars>>

Next ==
    \/ Accept
    \/ ServeMux
    \/ ServeHTTP
    \/ handleTextFile
    \/ handleInfoPacks
    \/ handleLooseObject
    \/ handlePackFile
    \/ handleIdxFile
    \/ handleInfoRefs
    \/ handleServiceRPC
    \/ rpcReadBody
    \/ rpcCommand
    \/ rpcStart
    \/ rpcWrite
    \/ rpcCopyStdout
    \/ rpcCopyStderr
    \/ rpcWait
    \/ Return
    \/ NextRequest
    \/ Finalizer

Spec == Init /\ [][Next]_vars

----------------------------------------------------------------------------
(* What the claims speak of *)

\* the routes whose pattern matches the request's path
Matching == {i \in 1..Len(Services) : MatchString(Services[i].Pattern, req.Path)}

FirstMatch == CHOOSE i \in Matching : \A j \in Matching : i <= j

UpTo(n) == [i \in 1..n |-> i]

\* ServeHTTP has run for the request
Served == routing.evaluated # <<>>

Handlers == {Services[i].Handler : i \in 1..Len(Services)}

RPCSteps == {"rpcReadBody", "rpcCommand", "rpcStart", "rpcWrite", "rpcCopyStdout", "rpcCopyStderr", "rpcWait"}

----------------------------------------------------------------------------
(* C1 *)

\* C1: dispatch is first-match-wins.  Once ServeHTTP has run, the patterns it
\* evaluated are exactly those of routes 1..f in table order, f being the
\* first route whose pattern matches the path (all ten when none matches);
\* if route f's method is the request's, the handler bound to f was invoked
\* exactly once and nothing else, otherwise no handler was invoked; the
\* handler that is running is the one bound to f.
C1_FirstMatchWins ==
    Served =>
        IF Matching = {}
        THEN /\ routing.evaluated = UpTo(Len(Services))
             /\ routing.invoked = <<>>
             /\ routing.notAllowed = 0
             /\ pc \notin Handlers \cup RPCSteps
        ELSE /\ routing.evaluated = UpTo(FirstMatch)
             /\ IF req.Method = Services[FirstMatch].Method
                THEN routing.invoked = <<FirstMatch>> /\ routing.notAllowed = 0
                ELSE routing.invoked = <<>> /\ routing.notAllowed = 1
             /\ pc \in Handlers => pc = Services[FirstMatch].Handler
             /\ pc \in RPCSteps => Services[FirstMatch].Handler = "handleServiceRPC"

\* the last route's handler runs, after the nine before it were evaluated
\* and did not match
C1_Witness ==
    /\ pc = "handleServiceRPC"
    /\ routing.invoked = <<10>>
    /\ Len(routing.evaluated) = 10

----------------------------------------------------------------------------
(* C2 *)

\* C2: when the path matches a route and the request's method is not the
\* method of the first matching route, no handler is invoked, no backend
\* command is built or run, no path is resolved, and the committed status is
\* 405 for the protocol string "HTTP/1.1" and 400 for any other.
C2_MethodMismatch ==
    (Served /\ Matching # {} /\ req.Method # Services[FirstMatch].Method) =>
        /\ routing.invoked = <<>>
        /\ pc \in {"return", "done"}
        /\ procs = <<>>
        /\ repoPath = NoPath /\ fullPath = NoPath /\ ~file.opened
        /\ w.wroteHeader
        /\ w.status = IF req.Proto = "HTTP/1.1" THEN 405 ELSE 400
        /\ w.body = <<>>

\* a GET for a POST route over HTTP/2.0 was answered 400
C2_Witness ==
    /\ pc = "done"
    /\ Served /\ Matching # {}
    /\ req.Method = "GET" /\ Services[FirstMatch].Method = "POST"
    /\ req.Proto = "HTTP/2.0"
    /\ w.status = 400

----------------------------------------------------------------------------
(* C3 *)

\* the verb is one of the two and the configuration enables it
Enabled(verb) ==
    \/ verb = "git-upload-pack" /\ cfg.UploadPack
    \/ verb = "git-receive-pack" /\ cfg.ReceivePack

NoCacheSent ==
    /\ SentIs(w, "Cache-Control", "no-cache, max-age=0, must-revalidate")
    /\ SentIs(w, "Pragma", "no-cache")
    /\ SentIs(w, "Expires", "Fri, 01 Jan 1980 00:00:00 GMT")

\* "001e# service=git-upload-pack\n" and "001f# service=git-receive-pack\n"
Announcement(verb) ==
    (IF verb = "git-upload-pack" THEN <<"0", "0", "1", "e">> ELSE <<"0", "0", "1", "f">>)
    \o ServiceLine(verb)

\* handleInfoRefs has run for a service the configuration enables
InfoRefsGranted == Served /\ routing.invoked = <<3>> /\ Enabled(req.Service) /\ pc \in {"return", "done"}

\* C3: the smart advertisement.  For GET .../info/refs?service=S with S an
\* enabled verb the committed status is 200, the committed headers are
\* Content-Type application/x-S-advertisement and the no-cache set, and the
\* body was written as three pieces in this order: the pkt-line of
\* "# service=S\n", the flush marker "0000", the backend's bytes.
C3_SmartAdvertisement ==
    InfoRefsGranted =>
        /\ w.status = 200
        /\ SentIs(w, "Content-Type", CT("application/x-" \o req.Service \o "-advertisement", ""))
        /\ NoCacheSent
        /\ Len(w.body) = 3
        /\ w.body[1].src = "announce" /\ w.body[1].bytes = Announcement(req.Service)
        /\ w.body[2].src = "flush" /\ w.body[2].bytes = <<"0", "0", "0", "0">>
        /\ w.body[3].src = "backend"
        /\ Body(w) = Announcement(req.Service) \o <<"0", "0", "0", "0">> \o w.body[3].bytes

\* the advertisement for git-receive-pack with bytes from the backend
C3_Witness ==
    /\ InfoRefsGranted
    /\ pc = "done"
    /\ req.Service = "git-receive-pack"
    /\ w.body[3].bytes = <<"x", "x">>

----------------------------------------------------------------------------
(* C4 *)

\* handleInfoRefs has run for a service that is disabled, unknown or absent,
\* and the response is complete
InfoRefsDenied == Served /\ routing.invoked = <<3>> /\ ~Enabled(req.Service) /\ pc = "done"

NoSmartFraming ==
    /\ \A i \in DOMAIN w.body : w.body[i].src \notin {"announce", "flush", "backend"}
    /\ "Content-Type" \in DOMAIN w.sent => SentMedia(w, "text/plain")

NotFoundResponse ==
    /\ w.status = 404
    /\ w.body = <<[src |-> "notfound", bytes |-> NotFoundText]>>

\* C4 as claimed: on the dumb fallback the body is exactly the file's
\* contents, as plain text with the no-cache headers, or the response is
\* the 404 when the file cannot be opened.
C4_Original ==
    InfoRefsDenied =>
        /\ NoSmartFraming
        /\ fullPath = Join(ReposRootPath, req.Path)
        /\ IF ~file.opened THEN NotFoundResponse
           ELSE /\ Body(w) = file.contents
                /\ SentMedia(w, "text/plain")
                /\ NoCacheSent

\* C4, amended: without smart access the response never has the smart
\* framing.  It is the 404 when info/refs under the root cannot be opened;
\* the text "Cannot fetch file ..." with status 200 and none of the
\* handler's headers when the opened file cannot be stat'ed; and otherwise
\* the file's contents, or the leading part of them that was copied before
\* the copy failed, as text/plain; charset=utf-8 with the no-cache headers.
C4_DumbFallback ==
    InfoRefsDenied =>
        /\ NoSmartFraming
        /\ fullPath = Join(ReposRootPath, req.Path)
        /\ IF ~file.opened THEN NotFoundResponse
           ELSE IF ~file.statOK
           THEN /\ w.status = 200
                /\ w.sent = <<>>
                /\ w.body = <<[src |-> "staterror", bytes |-> StatErrorText]>>
           ELSE /\ w.status = 200
                /\ IsPrefix(Body(w), file.contents)
                /\ SentIs(w, "Content-Type", CT("text/plain", "charset=utf-8"))
                /\ NoCacheSent

\* upload-pack is disabled, and the client got the whole of info/refs
C4_Witness ==
    /\ InfoRefsDenied
    /\ req.Service = "git-upload-pack"
    /\ file.opened /\ file.statOK
    /\ file.contents = <<"x", "x">>
    /\ Body(w) = file.contents

----------------------------------------------------------------------------
(* C5 *)

\* the verb of a service-RPC path: its last segment
Verb == Last(req.Path.segs)

\* C5: a POST for a disabled verb is answered 403 with Content-Type
\* text/plain and an empty body; the request body is not read and no backend
\* command is built or started.
C5_Forbidden ==
    (Served /\ routing.invoked \in {<<9>>, <<10>>} /\ ~Enabled(Verb) /\ pc = "done") =>
        /\ w.status = 403
        /\ SentIs(w, "Content-Type", CT("text/plain", ""))
        /\ w.body = <<>>
        /\ procs = <<>>
        /\ rpc = NoRPC

----------------------------------------------------------------------------
(* C6 *)

\* handleServiceRPC has run for a verb the configuration enables
RPCPermitted == Served /\ routing.invoked \in {<<9>>, <<10>>} /\ Enabled(Verb)

HasChunk(src) == \E i \in DOMAIN w.body : w.body[i].src = src

----------------------------------------------------------------------------
(* C7 *)

\* sendFile has run and the open failed
OpenFailed == fullPath # NoPath /\ ~file.opened /\ pc \in {"return", "done"}

\* C7: when a static-file route (the dumb info/refs fallback among them)
\* cannot open its file, the committed status is 404, the committed
\* Content-Type is text/plain, none of Cache-Control, Expires, Pragma, Date,
\* Content-Length and Last-Modified is committed, and no file byte is written.
C7_NotFound ==
    OpenFailed =>
        /\ routing.invoked[1] \in 1..8
        /\ w.status = 404
        /\ SentMedia(w, "text/plain")
        /\ DOMAIN w.sent \cap {"Cache-Control", "Expires", "Pragma", "Date",
                               "Content-Length", "Last-Modified"} = {}
        /\ ~HasChunk("file")

\* a loose object that is not there
C7_Witness ==
    /\ OpenFailed
    /\ pc = "done"
    /\ routing.invoked = <<6>>
    /\ w.status = 404

----------------------------------------------------------------------------
(* C8 *)

DigitValue(c) == CHOOSE d \in 0..15 : HexDigits[d + 1] = c

\* the number a string of digits writes in the base
RECURSIVE NumberOf(_, _)
NumberOf(digits, base) ==
    IF digits = <<>> THEN 0
    ELSE NumberOf(DropLast(digits, 1), base) * base + DigitValue(Last(digits))

\* sendFile has run, the open and the stat succeeded, and the headers are
\* committed
FileSent == fullPath # NoPath /\ file.opened /\ file.statOK /\ w.wroteHeader

\* C8: the cache policy of a successful static-file response.  Loose
\* objects, packs and pack indices commit Cache-Control
\* "public, max-age=31536000", a Date and an Expires 31536000 seconds after
\* it, and no Pragma; HEAD, info/packs, info/refs and the alternates files
\* commit Cache-Control "no-cache, max-age=0, must-revalidate", Pragma
\* no-cache and the 1980 Expires.  Both commit a Content-Length that is the
\* file's size in decimal.  The committed headers are those set before the
\* first body byte.
C8_CachePolicy ==
    FileSent =>
        /\ routing.invoked[1] \in 1..8
        /\ routing.invoked[1] \in {6, 7, 8} =>
               /\ SentIs(w, "Cache-Control", "public, max-age=31536000")
               /\ {"Date", "Expires"} \subseteq DOMAIN w.sent
               /\ Sent(w, "Expires").unix = Sent(w, "Date").unix + 31536000
               /\ "Pragma" \notin DOMAIN w.sent
        /\ routing.invoked[1] \in {1, 2, 3, 4, 5} => NoCacheSent
        /\ "Content-Length" \in DOMAIN w.sent
        /\ NumberOf(Sent(w, "Content-Length"), 10) = Len(file.contents)
        /\ \A i \in DOMAIN w.body : w.body[i].src = "file"
        /\ IsPrefix(Body(w), file.contents)

\* a pack file sent whole
C8_Witness ==
    /\ FileSent
    /\ pc = "done"
    /\ routing.invoked = <<7>>
    /\ file.contents = <<"x", "x">>
    /\ Body(w) = file.contents

----------------------------------------------------------------------------
(* C10 *)

\* the request's path has a segment that path.Clean would change
Unclean(path) == \E i \in DOMAIN path.segs : path.segs[i] \in {"", ".", ".."}

\* C10 as claimed: every path resolved lies within the root, and for every
\* URL path a client sends, ".." segments and repeated slashes included, the
\* join of the root and the path lies within the root.
C10_Original ==
    /\ repoPath # NoPath => Within(ReposRootPath, repoPath)
    /\ fullPath # NoPath => Within(ReposRootPath, fullPath)
    /\ req # NoRequest => Within(ReposRootPath, Join(ReposRootPath, req.Path))

\* C10, amended: every path the server resolves lies within the root, and a
\* request whose path the join would take out of the root (one with ".."
\* segments) has no path resolved for it at all: unless it is a CONNECT,
\* which no route serves, the mux answers it with a redirect before
\* ServeHTTP runs.
C10_Resolved ==
    /\ repoPath # NoPath => Within(ReposRootPath, repoPath)
    /\ fullPath # NoPath => Within(ReposRootPath, fullPath)
    /\ (req # NoRequest /\ ~Within(ReposRootPath, Join(ReposRootPath, req.Path))) =>
           /\ repoPath = NoPath /\ fullPath = NoPath
           /\ procs = <<>> /\ ~file.opened
           /\ (pc = "done" /\ req.Method # "CONNECT") => (w.status = 301 /\ ~Served)
           /\ (pc = "done" /\ req.Method = "CONNECT") => w.status \in {0, 200, 400, 405}

\* a GET for /../HEAD was answered with a redirect
C10_Witness ==
    /\ pc = "done"
    /\ req.Method = "GET"
    /\ req.Path.segs = <<"..", "HEAD">>
    /\ Join(ReposRootPath, req.Path) = [rooted |-> TRUE, segs |-> <<"etc", "HEAD">>]
    /\ w.status = 301
    /\ fullPath = NoPath

----------------------------------------------------------------------------
(* The codec on its own: pktWrite and pktFlush applied to drawn strings *)

PktAlphabet == {"a", "b", "\n"}

\* a string of n bytes
Filled(n) == [i \in 1..n |-> "a"]

\* the lengths on both sides of every power of the base up to the width
EdgeLengths == {HexBase^k - PktHeaderLen - d : k \in 1..PktWidth, d \in {0, 1}}

PktInputs ==
    SeqsUpTo(PktAlphabet, MaxLen)
    \cup {<<"a", "b", "c", "\n">>, ServiceLine(uploadPack), ServiceLine(receivePack)}
    \cup {Filled(n) : n \in EdgeLengths}

InitPkt ==
    /\ cfg = [UploadPack |-> TRUE, ReceivePack |-> TRUE]
    /\ pc = "pkt"
    /\ req = NoRequest
    /\ w = NewResponse
    /\ routing = NoRouting
    /\ repoPath = NoPath
    /\ fullPath = NoPath
    /\ file = NoFile
    /\ procs = <<>>
    /\ rpc = NoRPC
    /\ pktIn \in PktInputs
    /\ pktOut = <<>>
    /\ openFiles = 0
    /\ cwd = StartDir
    /\ task = [t \in Tasks |-> IdleTask]
    /\ pipe = NoPipe

PktWriteCall ==
    /\ pc = "pkt"
    /\ pktOut' = pktWrite(pktIn)
    /\ pc' = "pktWritten"
    /\ UNCHANGED <<cfg, req, w, routing, repoPath, fullPath, file, procs, rpc, pktIn, openFiles, clientVars>>

PktFlushCall ==
    /\ pc = "pkt"
    /\ pktOut' = pktFlush
    /\ pc' = "pktFlushed"
    /\ UNCHANGED <<cfg, req, w, routing, repoPath, fullPath, file, procs, rpc, pktIn, openFiles, clientVars>>

NextPkt == PktWriteCall \/ PktFlushCall

SpecPkt == InitPkt /\ [][NextPkt]_vars

----------------------------------------------------------------------------
(* C9 *)

LowerHex == {"0", "1", "2", "3", "4", "5", "6", "7", "8", "9", "a", "b", "c", "d", "e", "f"}

\* pktOut is four lowercase hex digits that write Len(pktIn) + 4, which is
\* the length of pktOut, followed by pktIn
FourDigitFrame ==
    /\ Len(pktOut) = Len(pktIn) + 4
    /\ \A i \in 1..4 : pktOut[i] \in LowerHex
    /\ NumberOf(SubSeq(pktOut, 1, 4), 16) = Len(pktIn) + 4
    /\ NumberOf(SubSeq(pktOut, 1, 4), 16) = Len(pktOut)
    /\ SubSeq(pktOut, 5, Len(pktOut)) = pktIn

\* C9 as claimed: for every input string pktWrite returns a four-digit
\* frame, and pktFlush returns "0000".
C9_Original ==
    /\ pc = "pktWritten" => FourDigitFrame
    /\ pc = "pktFlushed" => pktOut = <<"0", "0", "0", "0">>

\* C9, amended: for every input string of at most 65531 bytes (so that
\* len(s)+4 has at most four hex digits) pktWrite returns four lowercase hex
\* digits, zero-padded, that write len(s)+4, the length of the frame,
\* followed by s; for a longer string the prefix has more than four digits
\* and its value, still len(s)+4, is less than the length of the frame.
\* pktFlush returns "0000".
C9_Frame ==
    /\ (pc = "pktWritten" /\ Len(pktIn) <= 65531) => FourDigitFrame
    /\ (pc = "pktWritten" /\ Len(pktIn) > 65531) =>
           /\ Len(pktOut) > Len(pktIn) + 4
           /\ NumberOf(SubSeq(pktOut, 1, Len(pktOut) - Len(pktIn)), 16) = Len(pktIn) + 4
           /\ SubSeq(pktOut, Len(pktOut) - Len(pktIn) + 1, Len(pktOut)) = pktIn
    /\ pc = "pktFlushed" => pktOut = <<"0", "0", "0", "0">>

\* "abc\n" was framed as "0008abc\n"
C9_Witness ==
    /\ pc = "pktWritten"
    /\ pktIn = <<"a", "b", "c", "\n">>
    /\ pktOut = <<"0", "0", "0", "8", "a", "b", "c", "\n">>


----------------------------------------------------------------------------
(* C11 *)

\* gs.Start() has returned an error for the request's backend command
StartFailed == procs # <<>> /\ Last(procs).outcome \in StartOutcomes \ {"ok"}

\* C11: when Start returns an error the three endpoints are left alone:
\* nothing is written to StdinWriter, nothing is read from StdoutReader or
\* StderrReader, Wait is not called, and the request does not end in a panic
\* on an unset endpoint.
C11_StartFailure ==
    StartFailed =>
        /\ pc # "panic"
        /\ ~rpc.stdinDone
        /\ ~rpc.stdoutDone
        /\ ~rpc.stderrDone
        /\ ~rpc.waited


----------------------------------------------------------------------------
(* C12 *)

\* the body of a permitted service RPC came with Content-Encoding: gzip and
\* its decompression failed, at the header or later
GzipFailed == RPCPermitted /\ rpc.encoding = "gzip" /\ rpc.gzip \in {"bad-header", "broken-stream"}

\* C12: a gzip failure does not abort a permitted service RPC: the handler
\* does not panic and goes on to the command, start, write, copy and wait
\* steps.
C12_GzipFailure ==
    GzipFailed => pc \in RPCSteps \cup {"return", "done"}


----------------------------------------------------------------------------
(* GitRPCClient on its own: the command builders called from goroutines that
   share the process's working directory, each followed by Output *)

\* the variables of the server's specifications
serverVars == <<cfg, pc, req, w, routing, repoPath, fullPath, file, procs, rpc,
                pktIn, pktOut, openFiles>>

\* the repositories the callers name
Repos == {"/repos/a", "/repos/b"}
\* the orders in which a map's iteration gives the keys of an option set
\* over advertise_refs and a key the translation table does not hold
KeyOrders == {
    <<>>,
    <<"advertise_refs">>,
    <<"foo">>,
    <<"advertise_refs", "foo">>,
    <<"foo", "advertise_refs">> }

UpdateServerInfo(path, keys) == Command("update-server-info", path, keys)

InitClient ==
    /\ cfg = [UploadPack |-> TRUE, ReceivePack |-> TRUE]
    /\ pc = "client"
    /\ req = NoRequest
    /\ w = NewResponse
    /\ routing = NoRouting
    /\ repoPath = NoPath
    /\ fullPath = NoPath
    /\ file = NoFile
    /\ procs = <<>>
    /\ rpc = NoRPC
    /\ pktIn = <<>>
    /\ pktOut = <<>>
    /\ openFiles = 0
    /\ cwd = StartDir
    /\ task = [t \in Tasks |-> IdleTask]
    /\ pipe = NoPipe

\* gs.UploadPack(repoPath, cfg) or gs.ReceivePack(repoPath, cfg)
CallPack(t) ==
    /\ task[t].pc = "idle"
    /\ \E verb \in {"upload-pack", "receive-pack"} : \E path \in Repos : \E keys \in KeyOrders :
         task' = [task EXCEPT ![t] = [@ EXCEPT
                    !.pc = "built", !.verb = verb, !.repoPath = path, !.keys = keys,
                    !.args = IF verb = "upload-pack" THEN UploadPack(path, keys)
                             ELSE ReceivePack(path, keys),
                    !.before = cwd]]
    /\ UNCHANGED <<serverVars, cwd, pipe>>

\* gs.UpdateServerInfo(repoPath, cfg): the argument list
USIArgs(t) ==
    /\ task[t].pc = "idle"
    /\ \E path \in Repos : \E keys \in KeyOrders :
         task' = [task EXCEPT ![t] = [@ EXCEPT
                    !.pc = "Getwd", !.verb = "update-server-info", !.repoPath = path,
                    !.keys = keys, !.args = UpdateServerInfo(path, keys), !.before = cwd]]
    /\ UNCHANGED <<serverVars, cwd, pipe>>

\* pwd, _ := os.Getwd(): pwd is "" when the call fails (the working
\* directory was removed); the error is dropped
USIGetwd(t) ==
    /\ task[t].pc = "Getwd"
    /\ \E ok \in BOOLEAN :
         task' = [task EXCEPT ![t] = [@ EXCEPT
                    !.pc = "Chdir",
                    !.pwd = IF ok THEN cwd ELSE "",
                    !.failed = IF ok THEN @ ELSE @ \cup {"Getwd"}]]
    /\ UNCHANGED <<serverVars, cwd, pipe>>

\* os.Chdir(repoPath), its error dropped, and gs.cmd = exec.Command(...)
USIChdir(t) ==
    /\ task[t].pc = "Chdir"
    /\ \E ok \in BOOLEAN :
         /\ cwd' = IF ok THEN task[t].repoPath ELSE cwd
         /\ task' = [task EXCEPT ![t] = [@ EXCEPT
                        !.pc = "Restore",
                        !.failed = IF ok THEN @ ELSE @ \cup {"Chdir"}]]
    /\ UNCHANGED <<serverVars, pipe>>

\* UpdateServerInfo returning without its deferred call
USIRestore_Skipped(t) ==
    /\ task[t].pc = "Restore"
    /\ task' = [task EXCEPT ![t] = [@ EXCEPT !.pc = "built"]]
    /\ UNCHANGED <<serverVars, cwd, pipe>>

\* UpdateServerInfo returns: the deferred os.Chdir(pwd) runs, its error
\* dropped; Chdir("") always fails
USIRestore(t) ==
    /\ task[t].pc = "Restore"
    /\ \E ok \in BOOLEAN :
         LET done == ok /\ task[t].pwd # ""
         IN  /\ cwd' = IF done THEN task[t].pwd ELSE cwd
             /\ task' = [task EXCEPT ![t] = [@ EXCEPT
                            !.pc = "built",
                            !.failed = IF done THEN @ ELSE @ \cup {"Restore"}]]
    /\ UNCHANGED <<serverVars, pipe>>

\* gs.Output(): cmd.Output spawns the backend, which inherits the working
\* directory the process has at that moment, or fails to
ClientSpawn(t) ==
    /\ task[t].pc = "built"
    /\ \E ok \in BOOLEAN :
         task' = [task EXCEPT ![t] = [@ EXCEPT
                    !.pc = IF ok THEN "running" ELSE "done",
                    !.spawnCwd = IF ok THEN cwd ELSE @,
                    !.failed = IF ok THEN @ ELSE @ \cup {"spawn"}]]
    /\ UNCHANGED <<serverVars, cwd, pipe>>

\* the backend exits and cmd.Output returns
ClientExit(t) ==
    /\ task[t].pc = "running"
    /\ task' = [task EXCEPT ![t] = [@ EXCEPT !.pc = "done"]]
    /\ UNCHANGED <<serverVars, cwd, pipe>>

NextClient ==
    \E t \in Tasks :
        \/ CallPack(t)
        \/ USIArgs(t)
        \/ USIGetwd(t)
        \/ USIChdir(t)
        \/ USIRestore(t)
        \/ ClientSpawn(t)
        \/ ClientExit(t)

SpecClient == InitClient /\ [][NextClient]_vars

----------------------------------------------------------------------------
(* C13 *)

\* task t runs update-server-info and no other goroutine has called the client
Alone(t) ==
    /\ task[t].verb = "update-server-info"
    /\ \A u \in Tasks \ {t} : task[u].pc = "idle"

\* C13: while the backend of an update-server-info call executes, the
\* process's working directory is the target repository; once
\* UpdateServerInfo has returned, the working directory is what it was
\* before the call.
C13_WorkingDirectory ==
    \A t \in Tasks :
        Alone(t) =>
            /\ task[t].pc = "running" => cwd = task[t].repoPath /\ task[t].spawnCwd = task[t].repoPath
            /\ task[t].pc \in {"built", "running", "done"} => cwd = task[t].before

----------------------------------------------------------------------------
(* C14 *)

\* both goroutines have called UpdateServerInfo, both calls have returned,
\* and no Getwd or Chdir failed
BothReturned ==
    \A t \in Tasks :
        /\ task[t].verb = "update-server-info"
        /\ task[t].pc \in {"built", "running", "done"}
        /\ task[t].failed \cap {"Getwd", "Chdir", "Restore"} = {}

\* C14: two UpdateServerInfo calls that interleave can leave the process in
\* a working directory other than the one it had before either started.
\* When they do, one of the calls read the other's repository as the
\* working directory to return to; calls that do not read each other's
\* repository leave the working directory as it was.
C14_ConcurrentUnsafe ==
    (BothReturned /\ cwd # StartDir) =>
        \E t \in Tasks : \E u \in Tasks \ {t} :
            /\ task[t].pwd = task[u].repoPath
            /\ cwd = task[t].pwd

\* both calls have returned without a failure and the working directory is
\* the first caller's repository
C14_Witness ==
    /\ BothReturned
    /\ cwd # StartDir
    /\ \E t \in Tasks : task[t].before = StartDir /\ cwd = task[t].repoPath

----------------------------------------------------------------------------
(* C15 *)

\* the flags of the keys the translation table holds, in the keys' order
RECURSIVE Flags(_)
Flags(keys) ==
    IF keys = <<>> THEN <<>>
    ELSE IF Head(keys) = "advertise_refs" THEN <<"--advertise-refs">> \o Flags(Tail(keys))
    ELSE Flags(Tail(keys))

\* C15: the argument list is the verb, one flag per recognised key,
\* "--stateless-rpc", the repository path; a key the table does not hold
\* adds no argument.
C15_ArgumentList ==
    \A t \in Tasks :
        task[t].args # <<>> =>
            task[t].args = <<task[t].verb>> \o Flags(task[t].keys)
                           \o <<"--stateless-rpc", task[t].repoPath>>


----------------------------------------------------------------------------
(* C16 *)

\* a is among the arguments that come before the repository path
HasArg(args, a) == \E i \in 1..(Len(args) - 1) : args[i] = a

\* C16: every backend command of the ref-advertisement handler has
\* --advertise-refs among its arguments, on the granted path and on the
\* denied path; the command of the service-RPC handler never has it.
C16_AdvertiseOnly ==
    \A i \in DOMAIN procs :
        IF routing.invoked = <<3>>
        THEN HasArg(procs[i].args, "--advertise-refs")
        ELSE ~HasArg(procs[i].args, "--advertise-refs")

----------------------------------------------------------------------------
(* C17 *)

\* the headers of the smart advertisement for service S, and of the result
\* of a service RPC
AdvertisementHeaders(S) ==
    [h \in {"Content-Type", "Expires", "Pragma", "Cache-Control"} |->
        CASE h = "Content-Type"  -> <<CT("application/x-" \o S \o "-advertisement", "")>>
          [] h = "Expires"       -> <<"Fri, 01 Jan 1980 00:00:00 GMT">>
          [] h = "Pragma"        -> <<"no-cache">>
          [] h = "Cache-Control" -> <<"no-cache, max-age=0, must-revalidate">>]

ResultHeaders(verb) ==
    [h \in {"Content-Type"} |-> <<CT("application/x-" \o verb \o "-result", "")>>]

\* C17: the committed status and headers do not depend on how the backend
\* ended.  Whatever the outcome of the backend (exit 0, exit non-zero, not
\* spawned), the smart advertisement commits 200 with the headers the
\* service name determines, followed by the announcement and the flush
\* marker, and a service RPC whose handler returns commits 200 with the
\* headers the verb determines: both are functions of the request alone.
C17_OutcomeIndependent ==
    /\ InfoRefsGranted =>
           /\ w.status = 200
           /\ w.sent = AdvertisementHeaders(req.Service)
           /\ Len(w.body) = 3
           /\ w.body[1] = [src |-> "announce", bytes |-> Announcement(req.Service)]
           /\ w.body[2] = [src |-> "flush", bytes |-> <<"0", "0", "0", "0">>]
    /\ (RPCPermitted /\ pc = "done") =>
           /\ Last(procs).outcome \in {"ok", "cmd.Start"}
           /\ w.status = 200
           /\ w.sent = ResultHeaders(Verb)

\* a service RPC whose backend could not be spawned has been answered
C17_Witness ==
    /\ RPCPermitted
    /\ pc = "done"
    /\ Last(procs).outcome = "cmd.Start"
    /\ rpc.exit = "not-started"
    /\ w.status = 200


----------------------------------------------------------------------------
(* The streamed RPC byte by byte: the handler's four blocking calls after
   Start, the two pipes with their capacity, and the backend process *)

\* the backends: "eager" answers every input byte with an output byte before
\* it reads the next and exits after the last byte of the request; "framed"
\* reads the whole request, whose length the protocol tells it, then writes
\* its output and exits; "eof" reads its input until end-of-stream, then
\* writes its output and exits
BackendKinds == {"eager", "framed", "eof"}

InitPipe ==
    /\ cfg = [UploadPack |-> TRUE, ReceivePack |-> TRUE]
    /\ pc = "pipe"
    /\ req = NoRequest
    /\ w = NewResponse
    /\ routing = NoRouting
    /\ repoPath = NoPath
    /\ fullPath = NoPath
    /\ file = NoFile
    /\ procs = <<>>
    /\ rpc = NoRPC
    /\ pktIn = <<>>
    /\ pktOut = <<>>
    /\ openFiles = 0
    /\ cwd = StartDir
    /\ task = [t \in Tasks |-> IdleTask]
    /\ \E k \in BackendKinds : \E c \in 1..PipeCap : \E n \in 0..MaxBody : \E o \in 0..MaxOut :
         pipe = [NoPipe EXCEPT !.hpc = "Write", !.bpc = "reading", !.kind = k, !.cap = c,
                               !.total = n, !.body = n,
                               !.outTotal = IF k = "eager" THEN n ELSE o,
                               !.outLeft = IF k = "eager" THEN 0 ELSE o]

\* gs.StdinWriter.Write(reqBody): blocks while the pipe is full; returns when
\* the body is written, or with an error when the backend has exited
HandlerWrite ==
    /\ pipe.hpc = "Write"
    /\ IF pipe.body = 0 \/ pipe.bpc = "exited"
       THEN pipe' = [pipe EXCEPT !.hpc = "CopyStdout"]
       ELSE /\ pipe.inBuf < pipe.cap
            /\ pipe' = [pipe EXCEPT !.body = @ - 1, !.inBuf = @ + 1]
    /\ UNCHANGED <<serverVars, cwd, task>>

\* a handler that copies the backend's output while it is still writing the
\* request body
HandlerCopyStdout_Concurrent ==
    /\ pipe.hpc \in {"Write", "CopyStdout"}
    /\ IF pipe.outBuf > 0
       THEN pipe' = [pipe EXCEPT !.outBuf = @ - 1, !.copied = @ + 1]
       ELSE /\ pipe.hpc = "CopyStdout"
            /\ pipe.bpc = "exited"
            /\ pipe' = [pipe EXCEPT !.hpc = "CopyStderr"]
    /\ UNCHANGED <<serverVars, cwd, task>>

\* io.Copy(w, gs.StdoutReader): blocks while the pipe is empty; ends at
\* end-of-stream, when the backend has exited and the pipe is drained
HandlerCopyStdout ==
    /\ pipe.hpc = "CopyStdout"
    /\ IF pipe.outBuf > 0
       THEN pipe' = [pipe EXCEPT !.outBuf = @ - 1, !.copied = @ + 1]
       ELSE /\ pipe.bpc = "exited"
            /\ pipe' = [pipe EXCEPT !.hpc = "CopyStderr"]
    /\ UNCHANGED <<serverVars, cwd, task>>

\* io.Copy(w, gs.StderrReader): the backends here write nothing to stderr;
\* end-of-stream comes when the backend has exited
HandlerCopyStderr ==
    /\ pipe.hpc = "CopyStderr"
    /\ pipe.bpc = "exited"
    /\ pipe' = [pipe EXCEPT !.hpc = "Wait"]
    /\ UNCHANGED <<serverVars, cwd, task>>

\* gs.Wait(): cmd.Wait waits for the exit and closes the handler's ends of
\* the pipes, the write end of the backend's input among them
HandlerWait ==
    /\ pipe.hpc = "Wait"
    /\ pipe.bpc = "exited"
    /\ pipe' = [pipe EXCEPT !.hpc = "returned", !.inClosed = TRUE]
    /\ UNCHANGED <<serverVars, cwd, task>>

\* the backend reads one byte of its input
BackendRead ==
    /\ pipe.bpc = "reading"
    /\ pipe.inBuf > 0
    /\ pipe.owed = 0
    /\ pipe' = [pipe EXCEPT !.inBuf = @ - 1, !.consumed = @ + 1,
                            !.owed = IF pipe.kind = "eager" THEN 1 ELSE 0]
    /\ UNCHANGED <<serverVars, cwd, task>>

\* the backend has read its request: the framed and the eager one when they
\* have consumed its length, the eof one when read returns end-of-stream,
\* which needs the write end closed
BackendRequestRead ==
    /\ pipe.bpc = "reading"
    /\ pipe.owed = 0
    /\ CASE pipe.kind = "eof" -> pipe.inBuf = 0 /\ pipe.inClosed
         [] OTHER -> pipe.consumed = pipe.total
    /\ pipe' = [pipe EXCEPT !.bpc = "writing"]
    /\ UNCHANGED <<serverVars, cwd, task>>

\* the backend writes one byte of output: blocks while the pipe is full
BackendWrite ==
    /\ pipe.bpc \in {"reading", "writing"}
    /\ pipe.outBuf < pipe.cap
    /\ \/ /\ pipe.owed > 0
          /\ pipe' = [pipe EXCEPT !.owed = @ - 1, !.outBuf = @ + 1]
       \/ /\ pipe.bpc = "writing"
          /\ pipe.outLeft > 0
          /\ pipe' = [pipe EXCEPT !.outLeft = @ - 1, !.outBuf = @ + 1]
    /\ UNCHANGED <<serverVars, cwd, task>>

\* the backend exits when it has written its output
BackendExit ==
    /\ pipe.bpc = "writing"
    /\ pipe.outLeft = 0
    /\ pipe' = [pipe EXCEPT !.bpc = "exited"]
    /\ UNCHANGED <<serverVars, cwd, task>>

NextPipe ==
    \/ HandlerWrite
    \/ HandlerCopyStdout
    \/ HandlerCopyStderr
    \/ HandlerWait
    \/ BackendRead
    \/ BackendRequestRead
    \/ BackendWrite
    \/ BackendExit

SpecPipe == InitPipe /\ [][NextPipe]_vars

\* the scheduler runs a goroutine or a process that can take a step
SpecPipeFair == SpecPipe /\ WF_vars(NextPipe)

----------------------------------------------------------------------------
(* C18 *)

\* the handler is blocked in Write with body left and the input pipe full,
\* and the backend is blocked writing output to the full output pipe
Deadlocked ==
    /\ pipe.hpc = "Write"
    /\ pipe.body > 0
    /\ pipe.inBuf = pipe.cap
    /\ pipe.bpc # "exited"
    /\ pipe.owed > 0 \/ (pipe.bpc = "writing" /\ pipe.outLeft > 0)
    /\ pipe.outBuf = pipe.cap

\* C18: the state in which the handler is blocked writing the request body
\* and the backend is blocked writing its output is never left: no step of
\* the handler or of the backend is possible in it, and nothing else (no
\* timeout, no cancellation) acts on it.
C18_Deadlock == [][Deadlocked => (Deadlocked' /\ UNCHANGED pipe)]_vars

\* the deadlock, with none of the output copied
C18_Witness ==
    /\ Deadlocked
    /\ pipe.kind = "eager"
    /\ pipe.copied = 0

----------------------------------------------------------------------------
(* C19 *)

\* the pipes hold the whole request body and the whole output: no write blocks
Roomy == pipe.cap >= pipe.total /\ pipe.cap >= pipe.outTotal

\* C19: with a backend that reads its input to end-of-stream, then writes
\* its output and exits, and pipes in which no write blocks, the handler
\* eventually returns.
C19_Completes == [](((pipe.kind = "eof") /\ Roomy /\ pipe.hpc = "Write") => <>(pipe.hpc = "returned"))


----------------------------------------------------------------------------
(* C20 *)

\* C20: when the requests served so far have completed, the server holds
\* none of the files sendFile opened for them.
C20_FilesReleased == pc \in {"done", "idle"} => openFiles = 0

====
